---------------------------- MODULE Spec2Model ----------------------------
(***************************************************************************)
(* A model of the jwt crate: claims (src/src/claims.rs), the JOSE header   *)
(* (src/src/header.rs), the JWT itself (src/src/lib.rs) and the error type *)
(* (src/src/err.rs).                                                       *)
(*                                                                         *)
(* A Rust String is modelled as the sequence of its UTF-8 bytes (numbers   *)
(* in 0..255), so that splitting, filtering, base64 and JSON work on the   *)
(* same data the code works on.  T("...") writes such a text down.         *)
(***************************************************************************)
EXTENDS Integers, Sequences, FiniteSets, TLC

(***************************************************************************)
(* Texts                                                                   *)
(***************************************************************************)

\* The printable ASCII characters 32..95 and 97..126, in code order.
PrintableLow == " !\"#$%&'()*+,-./0123456789:;<=>?@ABCDEFGHIJKLMNOPQRSTUVWXYZ[\\]^_"

PrintableHigh == "abcdefghijklmnopqrstuvwxyz{|}~"

\* The code of each one-character string.
Ord ==
  [c \in { SubSeq(PrintableLow, i, i) : i \in 1..Len(PrintableLow) }
         \cup { SubSeq(PrintableHigh, i, i) : i \in 1..Len(PrintableHigh) }
         \cup { "\t", "\n", "\r" } |->
     IF c = "\t" THEN 9
     ELSE IF c = "\n" THEN 10
     ELSE IF c = "\r" THEN 13
     ELSE IF \E i \in 1..Len(PrintableLow) : SubSeq(PrintableLow, i, i) = c
     THEN 31 + (CHOOSE i \in 1..Len(PrintableLow) : SubSeq(PrintableLow, i, i) = c)
     ELSE 96 + (CHOOSE i \in 1..Len(PrintableHigh) : SubSeq(PrintableHigh, i, i) = c)]

\* The bytes of a string literal.
T(s) == [i \in 1..Len(s) |-> Ord[SubSeq(s, i, i)]]

\* s from position i to its end.
From(s, i) == SubSeq(s, i, Len(s))

\* Lexicographic order on byte sequences (the order of Rust's String).
RECURSIVE LexLess(_, _)
LexLess(a, b) ==
  IF Len(b) = 0 THEN FALSE
  ELSE IF Len(a) = 0 THEN TRUE
  ELSE IF a[1] # b[1] THEN a[1] < b[1]
  ELSE LexLess(Tail(a), Tail(b))

\* All orders (sequences without repetition) of the elements of a finite set.
RECURSIVE Perms(_)
Perms(S) ==
  IF S = {} THEN { <<>> }
  ELSE UNION { { <<x>> \o p : p \in Perms(S \ {x}) } : x \in S }

\* The elements of a finite set of texts in ascending order.
RECURSIVE Sorted(_)
Sorted(S) ==
  IF S = {} THEN <<>>
  ELSE LET m == CHOOSE x \in S : \A y \in S \ {x} : LexLess(x, y)
       IN  <<m>> \o Sorted(S \ {m})

(***************************************************************************)
(* err.rs: JWTError and its Display                                        *)
(***************************************************************************)

\* A ParseError's detail is the sequence of the message parts it was built
\* from; the other two errors carry nothing.
Ok == "Ok"

ParseError == "ParseError"

SchemaError == "SchemaError"

NotImplementedError == "NotImplementedError"

\* The process aborted (a Rust panic), not a JWTError.
Panic == "Panic"

\* format!("{}", e) for a JWTError e.
ErrDisplay(tag, detail) ==
  IF tag = ParseError THEN <<"Invalid JSON, parsing failed with:\n">> \o detail
  ELSE IF tag = SchemaError THEN <<"Schema error!">>
  ELSE <<"Not implemented.">>

(***************************************************************************)
(* base64::encode / base64::decode (standard alphabet, padded)             *)
(***************************************************************************)

\* The character of a 6-bit value.
B64Char(v) ==
  IF v < 26 THEN 65 + v
  ELSE IF v < 52 THEN 97 + (v - 26)
  ELSE IF v < 62 THEN 48 + (v - 52)
  ELSE IF v = 62 THEN 43
  ELSE 47

\* The 6-bit value of a character, -1 if it is not in the alphabet.
B64Val(c) ==
  IF c >= 65 /\ c <= 90 THEN c - 65
  ELSE IF c >= 97 /\ c <= 122 THEN c - 97 + 26
  ELSE IF c >= 48 /\ c <= 57 THEN c - 48 + 52
  ELSE IF c = 43 THEN 62
  ELSE IF c = 47 THEN 63
  ELSE -1

RECURSIVE Base64Encode(_)
Base64Encode(b) ==
  IF Len(b) = 0 THEN <<>>
  ELSE IF Len(b) = 1 THEN
    << B64Char(b[1] \div 4), B64Char((b[1] % 4) * 16), 61, 61 >>
  ELSE IF Len(b) = 2 THEN
    << B64Char(b[1] \div 4),
       B64Char((b[1] % 4) * 16 + (b[2] \div 16)),
       B64Char((b[2] % 16) * 4), 61 >>
  ELSE
    << B64Char(b[1] \div 4),
       B64Char((b[1] % 4) * 16 + (b[2] \div 16)),
       B64Char((b[2] % 16) * 4 + (b[3] \div 64)),
       B64Char(b[3] % 64) >> \o Base64Encode(From(b, 4))

\* The bytes of a run of alphabet characters whose length is not 1 mod 4.
RECURSIVE B64Bytes(_)
B64Bytes(c) ==
  IF Len(c) = 0 THEN <<>>
  ELSE IF Len(c) = 2 THEN
    << B64Val(c[1]) * 4 + (B64Val(c[2]) \div 16) >>
  ELSE IF Len(c) = 3 THEN
    << B64Val(c[1]) * 4 + (B64Val(c[2]) \div 16),
       (B64Val(c[2]) % 16) * 16 + (B64Val(c[3]) \div 4) >>
  ELSE
    << B64Val(c[1]) * 4 + (B64Val(c[2]) \div 16),
       (B64Val(c[2]) % 16) * 16 + (B64Val(c[3]) \div 4),
       (B64Val(c[3]) % 4) * 64 + B64Val(c[4]) >> \o B64Bytes(From(c, 5))

\* base64::decode: [ok, bytes].  Padding, when present, must complete the
\* last group; a character outside the alphabet, a length of 1 mod 4 and
\* non-zero bits after the last byte are errors.
Base64Decode(s) ==
  LET n    == Len(s)
      pad  == IF n >= 2 /\ s[n] = 61 /\ s[n - 1] = 61 THEN 2
              ELSE IF n >= 1 /\ s[n] = 61 THEN 1 ELSE 0
      body == SubSeq(s, 1, n - pad)
      m    == Len(body)
      bad  == \/ \E i \in 1..m : B64Val(body[i]) = -1
              \/ m % 4 = 1
              \/ pad > 0 /\ (m + pad) % 4 # 0
              \/ m % 4 = 2 /\ B64Val(body[m]) % 16 # 0
              \/ m % 4 = 3 /\ B64Val(body[m]) % 4 # 0
  IN  IF bad THEN [ok |-> FALSE, bytes |-> <<>>]
      ELSE [ok |-> TRUE, bytes |-> B64Bytes(body)]

(***************************************************************************)
(* String::from_utf8                                                       *)
(***************************************************************************)

Cont(b) == b >= 128 /\ b <= 191

RECURSIVE ValidUtf8(_)
ValidUtf8(b) ==
  LET n == Len(b) IN
  IF n = 0 THEN TRUE
  ELSE IF b[1] <= 127 THEN ValidUtf8(Tail(b))
  ELSE IF b[1] >= 194 /\ b[1] <= 223 THEN
    n >= 2 /\ Cont(b[2]) /\ ValidUtf8(From(b, 3))
  ELSE IF b[1] >= 224 /\ b[1] <= 239 THEN
    /\ n >= 3 /\ Cont(b[2]) /\ Cont(b[3])
    /\ (b[1] = 224 => b[2] >= 160)
    /\ (b[1] = 237 => b[2] <= 159)
    /\ ValidUtf8(From(b, 4))
  ELSE IF b[1] >= 240 /\ b[1] <= 244 THEN
    /\ n >= 4 /\ Cont(b[2]) /\ Cont(b[3]) /\ Cont(b[4])
    /\ (b[1] = 240 => b[2] >= 144)
    /\ (b[1] = 244 => b[2] <= 143)
    /\ ValidUtf8(From(b, 5))
  ELSE FALSE

(***************************************************************************)
(* serde_json: Value, from_str and to_string                               *)
(*                                                                         *)
(* The grammar is JSON's with two limits: numbers are the non-negative     *)
(* integers (no sign, fraction or exponent), and an object keeps its       *)
(* members in the order of their first occurrence.  No text the model      *)
(* parses contains a sign, a fraction or an exponent.                      *)
(***************************************************************************)

JNull == [t |-> "null"]

JBool(b) == [t |-> "bool", b |-> b]

JNum(n) == [t |-> "num", n |-> n]

JStr(s) == [t |-> "str", s |-> s]

JArr(a) == [t |-> "arr", a |-> a]

\* m is a sequence of members [k |-> key text, v |-> value], keys distinct.
JObj(m) == [t |-> "obj", m |-> m]

Fail == [ok |-> FALSE, v |-> JNull, i |-> 0]

Done(v, i) == [ok |-> TRUE, v |-> v, i |-> i]

IsWs(c) == c \in {32, 10, 13, 9}

IsDigit(c) == c >= 48 /\ c <= 57

\* The position of the first non-whitespace byte at or after i.
RECURSIVE SkipWs(_, _)
SkipWs(s, i) == IF i <= Len(s) /\ IsWs(s[i]) THEN SkipWs(s, i + 1) ELSE i

HexVal(c) ==
  IF IsDigit(c) THEN c - 48
  ELSE IF c >= 97 /\ c <= 102 THEN c - 87
  ELSE IF c >= 65 /\ c <= 70 THEN c - 55
  ELSE -1

\* The value of the four hex digits at i, -1 if they are not there.
Hex4(s, i) ==
  IF i + 3 > Len(s) \/ \E k \in i..(i + 3) : HexVal(s[k]) = -1 THEN -1
  ELSE HexVal(s[i]) * 4096 + HexVal(s[i + 1]) * 256
       + HexVal(s[i + 2]) * 16 + HexVal(s[i + 3])

\* The UTF-8 encoding of a code point.
Utf8(cp) ==
  IF cp < 128 THEN << cp >>
  ELSE IF cp < 2048 THEN << 192 + (cp \div 64), 128 + (cp % 64) >>
  ELSE IF cp < 65536 THEN
    << 224 + (cp \div 4096), 128 + ((cp \div 64) % 64), 128 + (cp % 64) >>
  ELSE << 240 + (cp \div 262144), 128 + ((cp \div 4096) % 64),
          128 + ((cp \div 64) % 64), 128 + (cp % 64) >>

\* The byte a one-character escape stands for, -1 if there is no such escape.
Unescape(e) ==
  IF e = 34 \/ e = 92 \/ e = 47 THEN e
  ELSE IF e = 98 THEN 8
  ELSE IF e = 102 THEN 12
  ELSE IF e = 110 THEN 10
  ELSE IF e = 114 THEN 13
  ELSE IF e = 116 THEN 9
  ELSE -1

\* The rest of a string whose opening quote is before i; acc is what was
\* read so far.
RECURSIVE ParseStr(_, _, _)
ParseStr(s, i, acc) ==
  IF i > Len(s) THEN Fail
  ELSE IF s[i] = 34 THEN Done(acc, i + 1)
  ELSE IF s[i] < 32 THEN Fail
  ELSE IF s[i] # 92 THEN ParseStr(s, i + 1, Append(acc, s[i]))
  ELSE IF i + 1 > Len(s) THEN Fail
  ELSE IF s[i + 1] # 117 THEN
    IF Unescape(s[i + 1]) = -1 THEN Fail
    ELSE ParseStr(s, i + 2, Append(acc, Unescape(s[i + 1])))
  ELSE
    LET Escaped(hi, lo) ==
          IF hi = -1 \/ (hi >= 56320 /\ hi <= 57343) THEN Fail
          ELSE IF hi < 55296 \/ hi > 57343 THEN
            ParseStr(s, i + 6, acc \o Utf8(hi))
          ELSE IF lo < 56320 \/ lo > 57343 THEN Fail
          ELSE ParseStr(s, i + 12,
                 acc \o Utf8(65536 + (hi - 55296) * 1024 + (lo - 56320)))
    IN  Escaped(Hex4(s, i + 2),
                IF i + 7 <= Len(s) /\ s[i + 6] = 92 /\ s[i + 7] = 117
                THEN Hex4(s, i + 8) ELSE -1)

\* The digits from i on, n being the number read so far.
RECURSIVE ParseDigits(_, _, _)
ParseDigits(s, i, n) ==
  IF i <= Len(s) /\ IsDigit(s[i]) THEN ParseDigits(s, i + 1, n * 10 + (s[i] - 48))
  ELSE Done(JNum(n), i)

\* A number starting at i: 0, or a digit 1..9 and more digits.
ParseNum(s, i) ==
  IF s[i] = 48 THEN
    IF i + 1 <= Len(s) /\ IsDigit(s[i + 1]) THEN Fail ELSE Done(JNum(0), i + 1)
  ELSE ParseDigits(s, i, 0)

\* The literal lit (null, true, false) at i.
ParseLit(s, i, lit, v) ==
  IF i + Len(lit) - 1 <= Len(s) /\ SubSeq(s, i, i + Len(lit) - 1) = lit
  THEN Done(v, i + Len(lit)) ELSE Fail

\* The members m with key k set to v: a key seen before keeps its place.
PutMember(m, k, v) ==
  IF \E p \in 1..Len(m) : m[p].k = k
  THEN [p \in 1..Len(m) |-> IF m[p].k = k THEN [k |-> k, v |-> v] ELSE m[p]]
  ELSE Append(m, [k |-> k, v |-> v])

RECURSIVE ParseValue(_, _)
RECURSIVE ParseMember(_, _, _)
RECURSIVE ParseElem(_, _, _)

\* The value whose first byte is at i.
ParseValue(s, i) ==
  IF i > Len(s) THEN Fail
  ELSE IF s[i] = 34 THEN
    LET Str(r) == IF r.ok THEN Done(JStr(r.v), r.i) ELSE Fail
    IN  Str(ParseStr(s, i + 1, <<>>))
  ELSE IF s[i] = 123 THEN
    LET j == SkipWs(s, i + 1)
    IN  IF j <= Len(s) /\ s[j] = 125 THEN Done(JObj(<<>>), j + 1)
        ELSE ParseMember(s, j, <<>>)
  ELSE IF s[i] = 91 THEN
    LET j == SkipWs(s, i + 1)
    IN  IF j <= Len(s) /\ s[j] = 93 THEN Done(JArr(<<>>), j + 1)
        ELSE ParseElem(s, j, <<>>)
  ELSE IF IsDigit(s[i]) THEN ParseNum(s, i)
  ELSE IF s[i] = 110 THEN ParseLit(s, i, T("null"), JNull)
  ELSE IF s[i] = 116 THEN ParseLit(s, i, T("true"), JBool(TRUE))
  ELSE IF s[i] = 102 THEN ParseLit(s, i, T("false"), JBool(FALSE))
  ELSE Fail

\* A member "key" : value at i and what follows it in the object; m is the
\* members read so far.
ParseMember(s, i, m) ==
  IF i > Len(s) \/ s[i] # 34 THEN Fail
  ELSE
    LET Rest(members, e) ==
          IF e > Len(s) THEN Fail
          ELSE IF s[e] = 125 THEN Done(JObj(members), e + 1)
          ELSE IF s[e] = 44 THEN ParseMember(s, SkipWs(s, e + 1), members)
          ELSE Fail
        Value(key, val) ==
          IF ~val.ok THEN Fail
          ELSE Rest(PutMember(m, key.v, val.v), SkipWs(s, val.i))
        Colon(key, c) ==
          IF ~key.ok \/ c > Len(s) \/ s[c] # 58 THEN Fail
          ELSE Value(key, ParseValue(s, SkipWs(s, c + 1)))
        Key(key) == Colon(key, SkipWs(s, key.i))
    IN  Key(ParseStr(s, i + 1, <<>>))

\* An element at i and what follows it in the array; a is the elements read
\* so far.
ParseElem(s, i, a) ==
  LET Rest(elems, e) ==
        IF e > Len(s) THEN Fail
        ELSE IF s[e] = 93 THEN Done(JArr(elems), e + 1)
        ELSE IF s[e] = 44 THEN ParseElem(s, SkipWs(s, e + 1), elems)
        ELSE Fail
      Value(val) ==
        IF ~val.ok THEN Fail ELSE Rest(Append(a, val.v), SkipWs(s, val.i))
  IN  Value(ParseValue(s, i))

\* serde_json::from_str::<Value>: one value, whitespace around it allowed.
from_str(s) ==
  LET End(r) ==
        IF r.ok /\ SkipWs(s, r.i) = Len(s) + 1 THEN [ok |-> TRUE, v |-> r.v]
        ELSE [ok |-> FALSE, v |-> JNull]
  IN  End(ParseValue(s, SkipWs(s, 1)))

\* serde_json::from_str::<Map<String, Value>>: the value must be an object.
from_str_map(s) ==
  LET Object(r) ==
        IF r.ok /\ r.v.t = "obj" THEN [ok |-> TRUE, m |-> r.v.m]
        ELSE [ok |-> FALSE, m |-> <<>>]
  IN  Object(from_str(s))

\* The decimal digits of a natural number.
RECURSIVE Digits(_)
Digits(n) == IF n < 10 THEN << 48 + n >> ELSE Append(Digits(n \div 10), 48 + (n % 10))

HexDigit(v) == IF v < 10 THEN 48 + v ELSE 87 + v

\* One byte of a string as to_string writes it.
EscapeByte(c) ==
  IF c = 34 THEN << 92, 34 >>
  ELSE IF c = 92 THEN << 92, 92 >>
  ELSE IF c = 8 THEN << 92, 98 >>
  ELSE IF c = 12 THEN << 92, 102 >>
  ELSE IF c = 10 THEN << 92, 110 >>
  ELSE IF c = 13 THEN << 92, 114 >>
  ELSE IF c = 9 THEN << 92, 116 >>
  ELSE IF c < 32 THEN << 92, 117, 48, 48, HexDigit(c \div 16), HexDigit(c % 16) >>
  ELSE << c >>

RECURSIVE Escape(_)
Escape(s) == IF Len(s) = 0 THEN <<>> ELSE EscapeByte(s[1]) \o Escape(Tail(s))

\* The texts of a sequence joined by sep.
RECURSIVE Join(_, _)
Join(parts, sep) ==
  IF Len(parts) = 0 THEN <<>>
  ELSE IF Len(parts) = 1 THEN parts[1]
  ELSE parts[1] \o sep \o Join(Tail(parts), sep)

\* serde_json::to_string: the compact text of a value.
RECURSIVE to_string(_)
to_string(v) ==
  IF v.t = "null" THEN T("null")
  ELSE IF v.t = "bool" THEN (IF v.b THEN T("true") ELSE T("false"))
  ELSE IF v.t = "num" THEN Digits(v.n)
  ELSE IF v.t = "str" THEN << 34 >> \o Escape(v.s) \o << 34 >>
  ELSE IF v.t = "arr" THEN
    << 91 >> \o Join([p \in 1..Len(v.a) |-> to_string(v.a[p])], << 44 >>) \o << 93 >>
  ELSE
    << 123 >>
    \o Join([p \in 1..Len(v.m) |->
               << 34 >> \o Escape(v.m[p].k) \o << 34, 58 >> \o to_string(v.m[p].v)],
            << 44 >>)
    \o << 125 >>

\* The keys of a parsed Map in the order Map::keys() yields them: ascending
\* when the Map is a BTreeMap (serde_json's default), in order of first
\* occurrence when it is an IndexMap (feature preserve_order).
MapKeys(m, btree) ==
  IF btree THEN Sorted({ m[p].k : p \in 1..Len(m) })
  ELSE [p \in 1..Len(m) |-> m[p].k]

\* Map::get(key), the key being present.
MapGet(m, key) == m[CHOOSE p \in 1..Len(m) : m[p].k = key].v

\* value[key] for a Value: Null unless value is an object with that key.
JIndex(v, key) ==
  IF v.t = "obj" /\ \E p \in 1..Len(v.m) : v.m[p].k = key THEN MapGet(v.m, key)
  ELSE JNull

(***************************************************************************)
(* claims.rs: StringOrURI                                                  *)
(***************************************************************************)

IsAlpha(c) == (c >= 65 /\ c <= 90) \/ (c >= 97 /\ c <= 122)

IsSchemeChar(c) == IsAlpha(c) \/ IsDigit(c) \/ c \in {43, 45, 46}

Lower(c) == IF c >= 65 /\ c <= 90 THEN c + 32 ELSE c

Contains(s, c) == \E i \in 1..Len(s) : s[i] = c

\* Url::parse(inp).as_str() for a text with a colon: the text needs a scheme
\* (a letter, then letters, digits, '+', '-', '.') before its first colon,
\* and the canonical text has the scheme in lower case.  The rest of the text
\* is kept as it is, which is what the parser does for a scheme that is not
\* a special one (http, https, ws, wss, ftp, file) followed by bytes among
\* the printable ASCII ones other than space, '/', '?' and '#': every name
\* of the model is of that kind.
Url_parse(inp) ==
  LET Scheme(c) ==
        IF c > 1 /\ IsAlpha(inp[1]) /\ \A j \in 1..(c - 1) : IsSchemeChar(inp[j])
        THEN [ok |-> TRUE,
              text |-> [j \in 1..Len(inp) |-> IF j < c THEN Lower(inp[j]) ELSE inp[j]]]
        ELSE [ok |-> FALSE, text |-> <<>>]
  IN  Scheme(CHOOSE i \in 1..Len(inp) : inp[i] = 58 /\ \A j \in 1..(i - 1) : inp[j] # 58)

String(value) == [form |-> "String", text |-> value]

URI(value) == [form |-> "URI", text |-> value]

new_string == String(<<>>)

\* StringOrURI::parse falling back to a String when the URI does not parse.
StringOrURI_parse_lenient(inp) ==
  LET Parsed(u) ==
        IF u.ok THEN [tag |-> Ok, detail |-> <<>>, name |-> URI(u.text)]
        ELSE [tag |-> Ok, detail |-> <<>>, name |-> String(inp)]
  IN  IF Contains(inp, 58) THEN Parsed(Url_parse(inp))
      ELSE [tag |-> Ok, detail |-> <<>>, name |-> String(inp)]

\* StringOrURI::parse
StringOrURI_parse(inp) ==
  IF Contains(inp, 58) THEN
    LET Parsed(u) ==
          IF u.ok THEN [tag |-> Ok, detail |-> <<>>, name |-> URI(u.text)]
          ELSE [tag |-> ParseError, detail |-> <<"relative URL without a base">>,
                name |-> new_string]
    IN  Parsed(Url_parse(inp))
  ELSE [tag |-> Ok, detail |-> <<>>, name |-> String(inp)]

\* StringOrURI::as_str
as_str(name) == name.text

(***************************************************************************)
(* claims.rs: Claim                                                        *)
(***************************************************************************)

REGISTERED_CLAIMS ==
  { T("iss"), T("sub"), T("aud"), T("exp"), T("nbf"), T("iat"), T("jti") }

\* Claim::new
Claim_new ==
  [claim_type |-> "Private", claim_name |-> new_string, claim_value |-> JObj(<<>>)]

\* Claim::get_claim_type without the list of registered names.
get_claim_type_unregistered(claim_name) ==
  IF claim_name.form = "URI" THEN "Public" ELSE "Private"

\* Claim::get_claim_type
get_claim_type(claim_name) ==
  IF claim_name.form = "URI" THEN "Public"
  ELSE IF claim_name.text \in REGISTERED_CLAIMS THEN "Registered"
  ELSE "Private"

\* Claim::parse
Claim_parse(claim_name, claim_value) ==
  LET Named(n) ==
        IF n.tag # Ok THEN [tag |-> n.tag, detail |-> n.detail, claim |-> Claim_new]
        ELSE [tag |-> Ok, detail |-> <<>>,
              claim |-> [claim_type  |-> get_claim_type(n.name),
                         claim_name  |-> n.name,
                         claim_value |-> claim_value]]
  IN  Named(StringOrURI_parse(claim_name))

\* Claim::encode_str
Claim_encode_str(claim) ==
  T("{\"") \o as_str(claim.claim_name) \o T("\":")
  \o to_string(claim.claim_value) \o T("}")

\* Claim::mark_public
mark_public(claim) == [claim EXCEPT !.claim_type = "Public"]

(***************************************************************************)
(* claims.rs: ClaimSet, a HashMap from name text to Claim                  *)
(***************************************************************************)

\* ClaimSet::new
ClaimSet_new == [k \in {} |-> Claim_new]

\* ClaimSet::insert as HashMap::insert alone would do it: a claim of the same
\* name is replaced.
ClaimSet_insert_overwrite(claims, claim) ==
  [tag |-> Ok,
   claims |-> [k \in DOMAIN claims \cup { as_str(claim.claim_name) } |->
                 IF k = as_str(claim.claim_name) THEN claim ELSE claims[k]]]

\* ClaimSet::insert: the result and the claims after the call.
ClaimSet_insert(claims, claim) ==
  LET claim_name_str == as_str(claim.claim_name)
  IN  IF claim_name_str \in DOMAIN claims
      THEN [tag |-> SchemaError, claims |-> claims]
      ELSE [tag |-> Ok, claims |-> (claim_name_str :> claim) @@ claims]

\* ClaimSet::get answering with an empty claim for a name that is not there.
ClaimSet_get_default(claims, claim_name) ==
  [tag |-> Ok,
   claim |-> IF claim_name \in DOMAIN claims THEN claims[claim_name] ELSE Claim_new]

\* ClaimSet::get
ClaimSet_get(claims, claim_name) ==
  IF claim_name \in DOMAIN claims
  THEN [tag |-> Ok, claim |-> claims[claim_name]]
  ELSE [tag |-> SchemaError, claim |-> Claim_new]

\* The loop of ClaimSet::decode_str over keys[i..], result being the set
\* built so far: the first failing Claim::parse or insert ends it.
RECURSIVE DecodeLoop(_, _, _, _)
DecodeLoop(parse, keys, i, result) ==
  IF i > Len(keys) THEN [tag |-> Ok, detail |-> <<>>, claims |-> result]
  ELSE
    LET Inserted(ins) ==
          IF ins.tag # Ok
          THEN [tag |-> ins.tag, detail |-> <<>>, claims |-> ClaimSet_new]
          ELSE DecodeLoop(parse, keys, i + 1, ins.claims)
        Parsed(claim) ==
          IF claim.tag # Ok
          THEN [tag |-> claim.tag, detail |-> claim.detail, claims |-> ClaimSet_new]
          ELSE Inserted(ClaimSet_insert(result, claim.claim))
    IN  Parsed(Claim_parse(keys[i], MapGet(parse, keys[i])))

\* ClaimSet::decode_str
ClaimSet_decode_str(claim_set, btree) ==
  LET Claims(parse) ==
        IF ~parse.ok
        THEN [tag |-> ParseError, detail |-> <<"serde_json error">>,
              claims |-> ClaimSet_new]
        ELSE DecodeLoop(parse.m, MapKeys(parse.m, btree), 1, ClaimSet_new)
  IN  Claims(from_str_map(claim_set))

\* The parts ClaimSet::encode_str pushes for the claims named keys[i..].
RECURSIVE EncodeLoop(_, _, _)
EncodeLoop(claims, keys, i) ==
  IF i > Len(keys) THEN <<>>
  ELSE LET Push(claim) ==
             << SubSeq(claim, 2, Len(claim) - 1), T(",") >>
             \o EncodeLoop(claims, keys, i + 1)
       IN  Push(Claim_encode_str(claims[keys[i]]))

\* ClaimSet::encode_str without the pop of the last comma.
ClaimSet_encode_str_nopop(claims, keys) ==
  IF Cardinality(DOMAIN claims) = 0 THEN T("{}")
  ELSE Join(Append(<< T("{") >> \o EncodeLoop(claims, keys, 1), T("}")), <<>>)

\* ClaimSet::encode_str; keys is the order in which the HashMap yields its
\* keys, which is any order.
ClaimSet_encode_str(claims, keys) ==
  IF Cardinality(DOMAIN claims) = 0 THEN T("{}")
  ELSE LET Pop(out_parts) == SubSeq(out_parts, 1, Len(out_parts) - 1)
       IN  Join(Append(Pop(<< T("{") >> \o EncodeLoop(claims, keys, 1)), T("}")), <<>>)

\* ClaimSet::encode_b64
ClaimSet_encode_b64(claims, keys) == Base64Encode(ClaimSet_encode_str(claims, keys))

\* ClaimSet::decode_b64
ClaimSet_decode_b64(input, btree) ==
  LET Decoded(bytes) ==
        IF ~bytes.ok
        THEN [tag |-> ParseError, detail |-> <<"base64 error">>, claims |-> ClaimSet_new]
        ELSE IF ~ValidUtf8(bytes.bytes)
        THEN [tag |-> ParseError, detail |-> <<"utf-8 error">>, claims |-> ClaimSet_new]
        ELSE ClaimSet_decode_str(bytes.bytes, btree)
  IN  Decoded(Base64Decode(input))

(***************************************************************************)
(* header.rs: JWTHeader                                                    *)
(***************************************************************************)

JWTHeader(typ, cty, alg) == [typ |-> typ, cty |-> cty, alg |-> alg]

\* JWTHeader::encode_str without the space after the colon.
JWTHeader_encode_str_compact(header) == T("{\"alg\":") \o T("\"none\"") \o T("}")

\* JWTHeader::encode_str
JWTHeader_encode_str(header) == T("{\"alg\": ") \o T("\"none\"") \o T("}")

\* JWTHeader::encode_b64
JWTHeader_encode_b64(header) == Base64Encode(JWTHeader_encode_str(header))

\* JWTHeader::decode_str.  alg.as_str().unwrap() panics when alg is neither
\* null nor a string.
JWTHeader_decode_str(input) ==
  LET none == JWTHeader("None", "None", "None")
      Alg(alg) ==
        IF alg.t = "null"
        THEN [tag |-> SchemaError, detail |-> <<>>, header |-> none]
        ELSE IF alg.t # "str"
        THEN [tag |-> Panic, detail |-> <<>>, header |-> none]
        ELSE IF alg.s = T("none")
        THEN [tag |-> Ok, detail |-> <<>>, header |-> JWTHeader("None", "None", "None")]
        ELSE [tag |-> NotImplementedError, detail |-> <<>>, header |-> none]
      Header(header) ==
        IF ~header.ok
        THEN [tag |-> ParseError, detail |-> <<"serde_json error">>, header |-> none]
        ELSE Alg(JIndex(header.v, T("alg")))
  IN  Header(from_str(input))

\* JWTHeader::decode_b64
JWTHeader_decode_b64(input) ==
  LET none == JWTHeader("None", "None", "None")
      Decoded(bytes) ==
        IF ~bytes.ok
        THEN [tag |-> ParseError, detail |-> <<"base64 error">>, header |-> none]
        ELSE IF ~ValidUtf8(bytes.bytes)
        THEN [tag |-> ParseError, detail |-> <<"utf-8 error">>, header |-> none]
        ELSE JWTHeader_decode_str(bytes.bytes)
  IN  Decoded(Base64Decode(input))

(***************************************************************************)
(* lib.rs: JWT                                                             *)
(***************************************************************************)

\* JWT::new
JWT_new == [header |-> JWTHeader("None", "None", "None"), claim_set |-> ClaimSet_new]

\* <JWT as JsonSerializable>::encode_str
JWT_encode_str(jwt, keys) ==
  JWTHeader_encode_str(jwt.header) \o T("\n.\n")
  \o ClaimSet_encode_str(jwt.claim_set, keys) \o T("\n.\n")

\* <JWT as JsonSerializable>::encode_b64
JWT_encode_b64(jwt, keys) ==
  JWTHeader_encode_b64(jwt.header) \o T("\n.\n")
  \o Base64Encode(ClaimSet_encode_str(jwt.claim_set, keys)) \o T("\n.\n")

\* JWT::from_plain_str: every error of ClaimSet::decode_str is wrapped into a
\* ParseError of its Display text.
JWT_from_plain_str(claims_set, btree) ==
  LET Mapped(r) ==
        IF r.tag = Ok
        THEN [tag |-> Ok, detail |-> <<>>,
              jwt |-> [header |-> JWTHeader("None", "None", "None"),
                       claim_set |-> r.claims]]
        ELSE [tag |-> ParseError, detail |-> ErrDisplay(r.tag, r.detail), jwt |-> JWT_new]
  IN  Mapped(ClaimSet_decode_str(claims_set, btree))

\* input.split("."): the pieces between the dots, one more than the dots.
RECURSIVE Split(_, _)
Split(s, acc) ==
  IF Len(s) = 0 THEN << acc >>
  ELSE IF s[1] = 46 THEN << acc >> \o Split(Tail(s), <<>>)
  ELSE Split(Tail(s), Append(acc, s[1]))

\* The filter of decode_b64: everything but space, LF and CR.
filter(s) == SelectSeq(s, LAMBDA c : c # 32 /\ c # 10 /\ c # 13)

\* <JWT as JsonSerializable>::decode_b64
JWT_decode_b64(input, btree) ==
  LET Jwt(header, claims_set) ==
        IF claims_set.tag # Ok THEN claims_set
        ELSE [tag |-> Ok, detail |-> <<>>,
              jwt |-> [claims_set.jwt EXCEPT !.header = header.header]]
      Claims(header, bytes) ==
        IF ~bytes.ok
        THEN [tag |-> ParseError, detail |-> <<"base64 error">>, jwt |-> JWT_new]
        ELSE IF ~ValidUtf8(bytes.bytes)
        THEN [tag |-> ParseError, detail |-> <<"utf-8 error">>, jwt |-> JWT_new]
        ELSE Jwt(header, JWT_from_plain_str(bytes.bytes, btree))
      Header(components, header) ==
        IF header.tag # Ok
        THEN [tag |-> header.tag, detail |-> header.detail, jwt |-> JWT_new]
        ELSE Claims(header, Base64Decode(components[2]))
      Components(components) ==
        IF Len(components) # 3
        THEN [tag |-> SchemaError, detail |-> <<>>, jwt |-> JWT_new]
        ELSE Header(components, JWTHeader_decode_b64(components[1]))
      Filtered(pieces) == Components([p \in 1..Len(pieces) |-> filter(pieces[p])])
  IN  Filtered(Split(input, <<>>))

\* <JWT as JsonSerializable>::decode_str: the input is not looked at.
JWT_decode_str(input) == [tag |-> Ok, detail |-> <<>>, jwt |-> JWT_new]

(***************************************************************************)
(* Bounds and inputs                                                       *)
(***************************************************************************)

\* The most claims a caller inserts into one ClaimSet.
MaxClaims == 2

\* The most members of a claims text given to a decoder.
MaxPairs == 3

\* The most pieces of a token text whose pieces are not decodable.
MaxSegments == 4

\* Claim names a caller passes to Claim::parse.
Names ==
  { T(""), T("a"), T("iss"), T("a\""), T("\\"), T("\n.\n"), T("a:b"), T("A:b"), T(":a") }

\* Claim names a caller passes to Claim::parse alone: the registered names,
\* names close to them, and names with a colon.
ParseNames ==
  Names \cup REGISTERED_CLAIMS
  \cup { T("ISS"), T("is"), T("issx"), T(" iss"), T("iss:a"), T("a+b.c-d:e"),
         T("urn:a:b"), T("a:"), T("1a:b"), T("a b:c"), T(":") }

\* Claim values a caller passes to Claim::parse.
Values == { JNum(1), JStr(T("b\"\n")) }

\* The claims a caller can hold: parsed ones, one of them marked public, and
\* the empty claim.
Claims ==
  { Claim_parse(n, v).claim :
      n \in { x \in Names : Claim_parse(x, JNull).tag = Ok }, v \in Values }
  \cup { mark_public(Claim_parse(T("a"), JStr(T("b\"\n"))).claim), Claim_new }

\* Keys and values as they are written in a claims text.
RawKeys == { T("a"), T("a\\\""), T("A:a"), T("a:a"), T("a\\\\:") }

RawValues == << T("1"), T("\"b\""), T("null") >>

\* The object text with the keys ks, the p-th member having the p-th value.
ObjectText(ks) ==
  T("{")
  \o Join([p \in 1..Len(ks) |->
             T("\"") \o ks[p] \o T("\":") \o RawValues[((p - 1) % Len(RawValues)) + 1]],
          T(","))
  \o T("}")

\* Sequences over S of length at most n.
RECURSIVE SeqsUpTo(_, _)
SeqsUpTo(S, n) ==
  IF n = 0 THEN { <<>> }
  ELSE LET shorter == SeqsUpTo(S, n - 1)
       IN  shorter \cup { Append(q, x) : q \in { r \in shorter : Len(r) = n - 1 }, x \in S }

\* Claims texts given to the decoders: objects, texts with whitespace, and
\* texts that are not JSON objects.
ClaimTexts ==
  { ObjectText(ks) : ks \in SeqsUpTo(RawKeys, MaxPairs) }
  \cup { T("{\"a\": \"b\"}"), T("{\"a\":\"b\"}"), T(" {\"foo\" : \"bar\"}\n"), T("{\"foo:\": \"x\"}"),
         T("{\"a\":\"\\/\"}"), T("{\"a\":[1,{}]}"),
         T(""), T("{"), T("[1]"), T("1"), T("{\"a\"}"), T("{\"a\":1,}"), T("{}}") }

\* Header texts given to the header decoders.
HeaderTexts ==
  { T("{\"alg\": \"none\"}"), T("{\"alg\":\"none\"}"),
    T("{\"typ\":\"JWT\",\"alg\":\"none\",\"cty\":\"JWT\"}"),
    T("{\"alg\":\"HS256\"}"), T("{\"alg\":null}"), T("{}"), T("{\"typ\":\"JWT\"}"),
    T("[1]"), T("\"none\""),
    T("{\"alg\":1}"), T("{\"alg\":true}"), T("{\"alg\":[]}"), T("{\"alg\":{}}"),
    T(""), T("{\"alg\""), T("none") }

\* Texts that are not base64, or not base64 of UTF-8.
BadB64 == { T("!"), T("e"), T("/w==") }

\* Base64 texts given to ClaimSet::decode_b64.
ClaimB64Texts ==
  { Base64Encode(x) :
      x \in { T("{}"), T("{\"a\":\"b\"}"), T("{\"A:a\":1,\"a:a\":\"b\"}"),
              T("{\"a\\\\:\":1}"), T("{\"a\\\"\":1}"), T("{") } }
  \cup BadB64

\* Token texts: a header piece, a claims piece and a signature piece, with
\* either separator; and texts of other piece counts.
TokenTexts ==
  { h \o sep \o c \o sep \o sig :
      h   \in { Base64Encode(x) :
                  x \in { T("{\"alg\": \"none\"}"), T("{\"alg\":\"HS256\"}"),
                          T("{}"), T("{\"alg\":1}") } } \cup { T("!"), T("/w==") },
      c   \in ClaimB64Texts,
      sep \in { T("."), T("\n.\n") },
      sig \in { T(""), T("c2ln") } }
  \cup { Join(q, T(".")) : q \in SeqsUpTo({ T(""), T("e30="), T("a b"), T("!") }, MaxSegments) }

\* Third pieces a token text may carry; none has a '.'.
Signatures == { T(""), T("c2ln"), T(" c2\nln"), T("!"), T("e30=") }

(***************************************************************************)
(* State                                                                   *)
(***************************************************************************)

VARIABLES
  header,     \* JWT.header of the token the caller holds
  claim_set,  \* JWT.claim_set of that token: the claims of a ClaimSet
  op,         \* the operation called last
  arg,        \* what it was called with
  ret,        \* what it returned
  before      \* claim_set before the call

vars == << header, claim_set, op, arg, ret, before >>

NoneHeader == JWTHeader("None", "None", "None")

\* An argument: a text, or a claim.  origin says where a text comes from:
\* "input" when the caller supplies it, the name of the encoder when it is the
\* text the last call returned.  For ClaimSet::encode_str, which takes no
\* argument, a text with origin "ClaimSet::decode_str" is the text the encoded
\* claims were just decoded from.  btree is the kind of Map serde_json is built
\* with.
Arg(text, claim, origin, btree) ==
  [text |-> text, claim |-> claim, origin |-> origin, btree |-> btree]

NoArg == Arg(<<>>, Claim_new, "none", TRUE)

\* A result: Ok or an error, with the text, claims and header returned.
Ret(tag, detail, text, claims, hdr) ==
  [tag |-> tag, detail |-> detail, text |-> text, claims |-> claims, header |-> hdr,
   claim |-> Claim_new]

\* The result of Claim::parse: Ok or an error, with the claim returned.
RetClaim(tag, detail, claim) ==
  [Ret(tag, detail, <<>>, ClaimSet_new, NoneHeader) EXCEPT !.claim = claim]

\* The caller holds a token it may go on building or encode.
Building ==
  \/ op \in { "JWT::new", "ClaimSet::insert" }
  \/ op \in { "ClaimSet::decode_str", "JWT::from_plain_str", "JWT::decode_b64" }
     /\ arg.origin = "input"

\* The texts a decoder may be called with: the inputs on a new token, the
\* text just returned by the encoder enc.
TextsFor(inputs, enc) ==
  IF op = "JWT::new" THEN { Arg(t, Claim_new, "input", b) : t \in inputs, b \in BOOLEAN }
  ELSE IF op = enc THEN { Arg(ret.text, Claim_new, enc, b) : b \in BOOLEAN }
  ELSE {}

\* JWT::new(): an empty unsecured token.
Init ==
  /\ header = JWT_new.header
  /\ claim_set = JWT_new.claim_set
  /\ op = "JWT::new"
  /\ arg = NoArg
  /\ ret = Ret(Ok, <<>>, <<>>, ClaimSet_new, NoneHeader)
  /\ before = ClaimSet_new

(***************************************************************************)
(* Operations                                                              *)
(***************************************************************************)

\* Claim::parse(claim_name, claim_value)
claim_parse ==
  \E n \in ParseNames, v \in Values :
    LET Return(r) ==
          /\ op' = "Claim::parse"
          /\ arg' = Arg(n, Claim_new, "input", TRUE)
          /\ ret' = RetClaim(r.tag, r.detail, r.claim)
          /\ before' = claim_set
          /\ UNCHANGED << header, claim_set >>
    IN  /\ op = "JWT::new"
        /\ Return(Claim_parse(n, v))

\* claim_set.insert(claim)
insert ==
  \E claim \in Claims :
    LET Return(r) ==
          /\ claim_set' = r.claims
          /\ before' = claim_set
          /\ op' = "ClaimSet::insert"
          /\ arg' = Arg(<<>>, claim, "none", TRUE)
          /\ ret' = Ret(r.tag, <<>>, <<>>, ClaimSet_new, NoneHeader)
          /\ UNCHANGED header
    IN  /\ Building
        /\ \/ Cardinality(DOMAIN claim_set) < MaxClaims
           \/ as_str(claim.claim_name) \in DOMAIN claim_set
        /\ Return(ClaimSet_insert(claim_set, claim))

\* ClaimSet::decode_str(text); a caller's input becomes the claims it holds.
decode_str ==
  \E a \in TextsFor(ClaimTexts, "ClaimSet::encode_str") :
    LET Return(r) ==
          /\ claim_set' = IF a.origin = "input" /\ r.tag = Ok THEN r.claims ELSE claim_set
          /\ before' = claim_set
          /\ op' = "ClaimSet::decode_str"
          /\ arg' = a
          /\ ret' = Ret(r.tag, r.detail, <<>>, r.claims, NoneHeader)
          /\ UNCHANGED header
    IN  Return(ClaimSet_decode_str(a.text, a.btree))

\* claim_set.encode_str(), keys being the order of the HashMap
encode_str ==
  \E keys \in Perms(DOMAIN claim_set) :
    /\ Building
    /\ op' = "ClaimSet::encode_str"
    /\ arg' = IF op = "ClaimSet::decode_str" /\ ret.tag = Ok
              THEN Arg(arg.text, Claim_new, "ClaimSet::decode_str", arg.btree)
              ELSE NoArg
    /\ ret' = Ret(Ok, <<>>, ClaimSet_encode_str(claim_set, keys), ClaimSet_new, NoneHeader)
    /\ before' = claim_set
    /\ UNCHANGED << header, claim_set >>

\* claim_set.encode_b64()
encode_b64 ==
  \E keys \in Perms(DOMAIN claim_set) :
    /\ Building
    /\ op' = "ClaimSet::encode_b64"
    /\ arg' = NoArg
    /\ ret' = Ret(Ok, <<>>, ClaimSet_encode_b64(claim_set, keys), ClaimSet_new, NoneHeader)
    /\ before' = claim_set
    /\ UNCHANGED << header, claim_set >>

\* ClaimSet::decode_b64(text)
decode_b64 ==
  \E a \in TextsFor(ClaimB64Texts, "ClaimSet::encode_b64") :
    LET Return(r) ==
          /\ op' = "ClaimSet::decode_b64"
          /\ arg' = a
          /\ ret' = Ret(r.tag, r.detail, <<>>, r.claims, NoneHeader)
          /\ before' = claim_set
          /\ UNCHANGED << header, claim_set >>
    IN  Return(ClaimSet_decode_b64(a.text, a.btree))

\* header.encode_str()
header_encode_str ==
  /\ Building
  /\ op' = "JWTHeader::encode_str"
  /\ arg' = NoArg
  /\ ret' = Ret(Ok, <<>>, JWTHeader_encode_str(header), ClaimSet_new, NoneHeader)
  /\ before' = claim_set
  /\ UNCHANGED << header, claim_set >>

\* header.encode_b64()
header_encode_b64 ==
  /\ Building
  /\ op' = "JWTHeader::encode_b64"
  /\ arg' = NoArg
  /\ ret' = Ret(Ok, <<>>, JWTHeader_encode_b64(header), ClaimSet_new, NoneHeader)
  /\ before' = claim_set
  /\ UNCHANGED << header, claim_set >>

\* JWTHeader::decode_str(text)
header_decode_str ==
  \E a \in TextsFor(HeaderTexts, "JWTHeader::encode_str") :
    LET Return(r) ==
          /\ op' = "JWTHeader::decode_str"
          /\ arg' = [a EXCEPT !.btree = TRUE]
          /\ ret' = Ret(r.tag, r.detail, <<>>, ClaimSet_new, r.header)
          /\ before' = claim_set
          /\ UNCHANGED << header, claim_set >>
    IN  Return(JWTHeader_decode_str(a.text))

\* JWTHeader::decode_b64(text)
header_decode_b64 ==
  \E a \in TextsFor({ Base64Encode(t) : t \in HeaderTexts } \cup BadB64,
                    "JWTHeader::encode_b64") :
    LET Return(r) ==
          /\ op' = "JWTHeader::decode_b64"
          /\ arg' = [a EXCEPT !.btree = TRUE]
          /\ ret' = Ret(r.tag, r.detail, <<>>, ClaimSet_new, r.header)
          /\ before' = claim_set
          /\ UNCHANGED << header, claim_set >>
    IN  Return(JWTHeader_decode_b64(a.text))

\* JWT::from_plain_str(text): the token built replaces the one held.
from_plain_str ==
  \E a \in TextsFor(ClaimTexts, "none") :
    LET Return(r) ==
          /\ header' = IF r.tag = Ok THEN r.jwt.header ELSE header
          /\ claim_set' = IF r.tag = Ok THEN r.jwt.claim_set ELSE claim_set
          /\ before' = claim_set
          /\ op' = "JWT::from_plain_str"
          /\ arg' = a
          /\ ret' = Ret(r.tag, r.detail, <<>>, r.jwt.claim_set, r.jwt.header)
    IN  Return(JWT_from_plain_str(a.text, a.btree))

\* jwt.encode_str()
jwt_encode_str ==
  \E keys \in Perms(DOMAIN claim_set) :
    /\ Building
    /\ op' = "JWT::encode_str"
    /\ arg' = NoArg
    /\ ret' = Ret(Ok, <<>>,
                  JWT_encode_str([header |-> header, claim_set |-> claim_set], keys),
                  ClaimSet_new, NoneHeader)
    /\ before' = claim_set
    /\ UNCHANGED << header, claim_set >>

\* jwt.encode_b64()
jwt_encode_b64 ==
  \E keys \in Perms(DOMAIN claim_set) :
    /\ Building
    /\ op' = "JWT::encode_b64"
    /\ arg' = NoArg
    /\ ret' = Ret(Ok, <<>>,
                  JWT_encode_b64([header |-> header, claim_set |-> claim_set], keys),
                  ClaimSet_new, NoneHeader)
    /\ before' = claim_set
    /\ UNCHANGED << header, claim_set >>

\* JWT::decode_b64(text); a caller's input becomes the token it holds.
jwt_decode_b64 ==
  \E a \in TextsFor(TokenTexts, "JWT::encode_b64") :
    LET Return(r) ==
          /\ header' = IF a.origin = "input" /\ r.tag = Ok THEN r.jwt.header ELSE header
          /\ claim_set' = IF a.origin = "input" /\ r.tag = Ok
                          THEN r.jwt.claim_set ELSE claim_set
          /\ before' = claim_set
          /\ op' = "JWT::decode_b64"
          /\ arg' = a
          /\ ret' = Ret(r.tag, r.detail, <<>>, r.jwt.claim_set, r.jwt.header)
    IN  Return(JWT_decode_b64(a.text, a.btree))

\* JWT::decode_str(text)
jwt_decode_str ==
  \E a \in TextsFor(TokenTexts, "JWT::encode_str") :
    LET Return(r) ==
          /\ op' = "JWT::decode_str"
          /\ arg' = [a EXCEPT !.btree = TRUE]
          /\ ret' = Ret(r.tag, r.detail, <<>>, r.jwt.claim_set, r.jwt.header)
          /\ before' = claim_set
          /\ UNCHANGED << header, claim_set >>
    IN  Return(JWT_decode_str(a.text))

Next ==
  \/ claim_parse
  \/ insert
  \/ decode_str
  \/ encode_str
  \/ encode_b64
  \/ decode_b64
  \/ header_encode_str
  \/ header_encode_b64
  \/ header_decode_str
  \/ header_decode_b64
  \/ from_plain_str
  \/ jwt_encode_str
  \/ jwt_encode_b64
  \/ jwt_decode_b64
  \/ jwt_decode_str

Spec == Init /\ [][Next]_vars

(***************************************************************************)
(* Properties                                                              *)
(***************************************************************************)

\* Two sets of claims have the same names and the same value under each.
SameClaims(a, b) ==
  /\ DOMAIN a = DOMAIN b
  /\ \A k \in DOMAIN a :
       /\ as_str(a[k].claim_name) = as_str(b[k].claim_name)
       /\ a[k].claim_value = b[k].claim_value

\* The number of '.' in a text.
Dots(text) == Cardinality({ i \in 1..Len(text) : text[i] = 46 })

\* The name of the claim an insert was called with.
InsertedName == as_str(arg.claim.claim_name)

\* C1: an insert of a claim whose name is already in the set returns
\* SchemaError and leaves the set as it was: same names, same claims.
C1_DuplicateInsertRejected ==
  (op = "ClaimSet::insert" /\ InsertedName \in DOMAIN before)
    => (ret.tag = SchemaError /\ claim_set = before)

\* A full set was offered a claim of a name it has, with another value and
\* another kind.
C1_Witness ==
  /\ op = "ClaimSet::insert"
  /\ Cardinality(DOMAIN before) = MaxClaims
  /\ InsertedName \in DOMAIN before
  /\ before[InsertedName].claim_value # arg.claim.claim_value
  /\ before[InsertedName].claim_type # arg.claim.claim_type

\* C2: decoding the text encode_str returned for the claims held succeeds and
\* yields the same name-to-value pairs, whatever the names are.
C2_ClaimSetRoundTrip ==
  (op = "ClaimSet::decode_str" /\ arg.origin = "ClaimSet::encode_str")
    => (ret.tag = Ok /\ SameClaims(ret.claims, claim_set))

\* C3: both token decoders return SchemaError for a text that does not have
\* exactly two '.', that is, exactly three pieces.
C3_SegmentGate ==
  (op \in { "JWT::decode_b64", "JWT::decode_str" } /\ Dots(arg.text) # 2)
    => ret.tag = SchemaError

\* C4: decode_b64 of the text encode_b64 returned for the token held succeeds
\* and returns the header and the name-to-value pairs of that token.
C4_TokenRoundTripB64 ==
  (op = "JWT::decode_b64" /\ arg.origin = "JWT::encode_b64")
    => (ret.tag = Ok /\ ret.header = header /\ SameClaims(ret.claims, claim_set))

\* C5: decode_str of the text encode_str returned for the token held returns
\* the header and the name-to-value pairs of that token.
C5_TokenRoundTripStr ==
  (op = "JWT::decode_str" /\ arg.origin = "JWT::encode_str")
    => (ret.tag = Ok /\ ret.header = header /\ SameClaims(ret.claims, claim_set))

\* The claims text JWT::decode_b64 hands to JWT::from_plain_str for a token
\* text, and whether it gets that far.
ClaimsPiece(text) == Base64Decode(filter(Split(text, <<>>)[2]))

ReachesClaims(text) ==
  LET Valid(piece) == piece.ok /\ ValidUtf8(piece.bytes)
  IN  /\ Dots(text) = 2
      /\ JWTHeader_decode_b64(filter(Split(text, <<>>)[1])).tag = Ok
      /\ Valid(ClaimsPiece(text))

\* C6: when ClaimSet::decode_str fails inside JWT::from_plain_str, or inside
\* JWT::decode_b64 on the decoded second piece, the caller gets that very
\* error: the same kind, and the same detail for a ParseError.
C6_ClaimSetErrorUnchanged ==
  LET Same(r) == r.tag # Ok => (ret.tag = r.tag /\ ret.detail = r.detail)
  IN  /\ op = "JWT::from_plain_str" => Same(ClaimSet_decode_str(arg.text, arg.btree))
      /\ (op = "JWT::decode_b64" /\ ReachesClaims(arg.text)) =>
           Same(ClaimSet_decode_str(ClaimsPiece(arg.text).bytes, arg.btree))

\* C7: JWTHeader::decode_str returns a header or one of the three errors for
\* every text and never aborts: ParseError for a text that is not JSON,
\* SchemaError when alg is missing or null, NotImplementedError when alg is
\* anything but "none", a header otherwise.
C7_HeaderDecodeTotal ==
  op = "JWTHeader::decode_str" =>
    LET Typed(json, alg) ==
          /\ ret.tag \in { Ok, ParseError, SchemaError, NotImplementedError }
          /\ ~json.ok => ret.tag = ParseError
          /\ (json.ok /\ alg = JNull) => ret.tag = SchemaError
          /\ (json.ok /\ alg # JNull /\ alg # JStr(T("none")))
               => ret.tag = NotImplementedError
          /\ (json.ok /\ alg = JStr(T("none"))) => ret.tag = Ok
        Json(json) == Typed(json, JIndex(json.v, T("alg")))
    IN  Json(from_str(arg.text))

\* C8: decoding what the header encoders returned succeeds with alg, typ and
\* cty None, and encoding the decoded header gives the decoded text back, in
\* text and in base64; so it is for the base64 text eyJhbGciOiAibm9uZSJ9; and
\* typ and cty of every decoded header are None.
C8_HeaderRoundTrip ==
  /\ (op = "JWTHeader::decode_str" /\ arg.origin = "JWTHeader::encode_str")
       => /\ ret.tag = Ok
          /\ ret.header = JWTHeader("None", "None", "None")
          /\ JWTHeader_encode_str(ret.header) = arg.text
  /\ (op = "JWTHeader::decode_b64"
      /\ (arg.origin = "JWTHeader::encode_b64" \/ arg.text = T("eyJhbGciOiAibm9uZSJ9")))
       => /\ ret.tag = Ok
          /\ ret.header = JWTHeader("None", "None", "None")
          /\ JWTHeader_encode_b64(ret.header) = arg.text
  /\ (op \in { "JWTHeader::decode_str", "JWTHeader::decode_b64" } /\ ret.tag = Ok)
       => (ret.header.typ = "None" /\ ret.header.cty = "None")

\* The header a caller encoded in base64 was decoded from that text.
C8_Witness ==
  /\ op = "JWTHeader::decode_b64"
  /\ arg.origin = "JWTHeader::encode_b64"
  /\ arg.text = T("eyJhbGciOiAibm9uZSJ9")
  /\ ret.tag = Ok

\* The keys of the object a claims text is, none if it is not an object.
KeysOf(text) ==
  LET Keys(m) == { m[p].k : p \in 1..Len(m) } IN Keys(from_str_map(text).m)

\* A key with a colon that is not a URI.
BadUriKey(key) == Contains(key, 58) /\ ~Url_parse(key).ok

\* The name text a key is stored under.
NameOf(key) == IF Contains(key, 58) THEN Url_parse(key).text ELSE key

\* Two keys of the text have the same name text.
KeysCollide(text) ==
  \E k1, k2 \in { k \in KeysOf(text) : ~BadUriKey(k) } : k1 # k2 /\ NameOf(k1) = NameOf(k2)

\* ClaimSet::decode_str returned a set with one claim for every key of the
\* object, under the key's name text and with the key's value.
OneClaimPerKey ==
  /\ Cardinality(DOMAIN ret.claims) = Cardinality(KeysOf(arg.text))
  /\ \A k \in KeysOf(arg.text) :
       /\ NameOf(k) \in DOMAIN ret.claims
       /\ ret.claims[NameOf(k)].claim_value = MapGet(from_str_map(arg.text).m, k)

\* C9 as stated: a key with a colon that is not a URI makes decode_str return
\* ParseError, wherever the key is; a returned set has a claim for every key.
C9_BadUriKeyIsParseError ==
  op = "ClaimSet::decode_str" =>
    /\ (\E k \in KeysOf(arg.text) : BadUriKey(k)) => ret.tag = ParseError
    /\ ret.tag = Ok => OneClaimPerKey

\* C9, amended: a key with a colon that is not a URI makes decode_str return
\* an error and no set, wherever the key is: ParseError, unless two other keys
\* have the same name text, when it is ParseError or SchemaError; a returned
\* set has a claim for every key.
C9_BadUriKeyIsError ==
  op = "ClaimSet::decode_str" =>
    /\ (\E k \in KeysOf(arg.text) : BadUriKey(k)) =>
         /\ ret.tag \in { ParseError, SchemaError }
         /\ ret.claims = ClaimSet_new
         /\ ~KeysCollide(arg.text) => ret.tag = ParseError
    /\ ret.tag = Ok => OneClaimPerKey

\* A text of three keys, the one that is not a URI being the last in the text
\* and in ascending order, was refused with ParseError.
C9_Witness ==
  /\ op = "ClaimSet::decode_str"
  /\ ret.tag = ParseError
  /\ Cardinality(KeysOf(arg.text)) = 3
  /\ LET LastIsBad(m) ==
           /\ BadUriKey(m[3].k)
           /\ ~BadUriKey(m[1].k) /\ ~BadUriKey(m[2].k)
           /\ LexLess(m[1].k, m[3].k) /\ LexLess(m[2].k, m[3].k)
     IN  LastIsBad(from_str_map(arg.text).m)

\* The fragment "<name>":<value-json> of a claim.
Fragment(claim) ==
  T("\"") \o as_str(claim.claim_name) \o T("\":") \o to_string(claim.claim_value)

\* text is '{', the fragments of the claims in some order with one ','
\* between two of them, and '}'; "{}" for no claims.
HasShape(text, claims) ==
  \E keys \in Perms(DOMAIN claims) :
    text = T("{") \o Join([p \in 1..Len(keys) |-> Fragment(claims[keys[p]])], T(","))
           \o T("}")

\* The claims encoded were decoded from a text without whitespace and are one
\* claim.
OneClaimFromCompactText ==
  /\ op = "ClaimSet::encode_str"
  /\ arg.origin = "ClaimSet::decode_str"
  /\ Cardinality(DOMAIN claim_set) = 1
  /\ \A i \in 1..Len(arg.text) : ~IsWs(arg.text[i])

RECURSIVE Segments(_, _)
Segments(s, acc) ==
  IF Len(s) = 0 THEN << acc >>
  ELSE IF Len(s) >= 3 /\ SubSeq(s, 1, 3) = T("\n.\n")
  THEN << acc >> \o Segments(SubSeq(s, 4, Len(s)), <<>>)
  ELSE Segments(Tail(s), Append(acc, s[1]))

\* A text has exactly two separators and nothing after the second.
TwoSeparators(text) ==
  LET Three(pieces) == Len(pieces) = 3 /\ pieces[3] = <<>>
  IN  Three(Segments(text, <<>>))

\* C11: the text of a token is the header's text, a separator, the claims'
\* text and a separator, and its base64 form is the header's base64, a
\* separator, the claims' base64 and a separator, the claims being written in
\* one of the orders of the map; either has exactly two separators and nothing
\* after the second; and the base64 form of the empty token is
\* eyJhbGciOiAibm9uZSJ9, e30= and nothing, each followed by a separator.
C11_TokenEncodeLayout ==
  /\ op = "JWT::encode_str" =>
       /\ \E keys \in Perms(DOMAIN claim_set) :
            ret.text = JWTHeader_encode_str(header) \o T("\n.\n")
                       \o ClaimSet_encode_str(claim_set, keys) \o T("\n.\n")
       /\ TwoSeparators(ret.text)
  /\ op = "JWT::encode_b64" =>
       /\ \E keys \in Perms(DOMAIN claim_set) :
            ret.text = JWTHeader_encode_b64(header) \o T("\n.\n")
                       \o ClaimSet_encode_b64(claim_set, keys) \o T("\n.\n")
       /\ TwoSeparators(ret.text)
       /\ claim_set = ClaimSet_new => ret.text = T("eyJhbGciOiAibm9uZSJ9\n.\ne30=\n.\n")

\* C12: Claim::parse of a name without ':' returns a claim whose name is the
\* String form with the text as given, of type Registered when the text is one
\* of iss, sub, aud, exp, nbf, iat, jti and Private otherwise; of a name with
\* ':' that is a URI, a claim whose name is the URI form, of type Public; of a
\* name with ':' that is not a URI, ParseError.
C12_NameClassification ==
  op = "Claim::parse" =>
    /\ ~Contains(arg.text, 58) =>
         /\ ret.tag = Ok
         /\ ret.claim.claim_name = String(arg.text)
         /\ ret.claim.claim_type = "Registered" <=>
              arg.text \in { T("iss"), T("sub"), T("aud"), T("exp"),
                             T("nbf"), T("iat"), T("jti") }
         /\ ret.claim.claim_type \in { "Registered", "Private" }
    /\ (Contains(arg.text, 58) /\ Url_parse(arg.text).ok) =>
         /\ ret.tag = Ok
         /\ ret.claim.claim_name.form = "URI"
         /\ ret.claim.claim_type = "Public"
    /\ (Contains(arg.text, 58) /\ ~Url_parse(arg.text).ok) => ret.tag = ParseError

\* Claim::parse classified a registered name.
C12_Witness ==
  /\ op = "Claim::parse"
  /\ arg.text = T("exp")
  /\ ret.tag = Ok
  /\ ret.claim.claim_type = "Registered"
  /\ ret.claim.claim_name = String(T("exp"))

\* A three-piece token text with another third piece.
WithSignature(text, sig) ==
  LET Replace(pieces) == Join(<< pieces[1], pieces[2], sig >>, T("."))
  IN  Replace(Split(text, <<>>))

\* The token a successful JWT::decode_b64 returned.
Parsed == [header |-> ret.header, claim_set |-> ret.claims]

\* C13: the token JWT::decode_b64 returns for a three-piece text keeps the
\* filtered third piece, so that texts whose third pieces differ after the
\* filter give different tokens; and nothing is verified on the third piece:
\* with any other third piece the call succeeds or fails as it did.
C13_SignatureRetained ==
  (op = "JWT::decode_b64" /\ Dots(arg.text) = 2) =>
    \A sig \in Signatures :
      LET Other(r) ==
            /\ r.tag = ret.tag
            /\ (ret.tag = Ok /\ filter(sig) # filter(Split(arg.text, <<>>)[3]))
                 => r.jwt # Parsed
      IN  Other(JWT_decode_b64(WithSignature(arg.text, sig), arg.btree))

\* The errors a call can return.
Errors == { ParseError, SchemaError, NotImplementedError }

\* The filtered pieces of a token text.
Components(text) ==
  LET Filter(pieces) == [p \in 1..Len(pieces) |-> filter(pieces[p])]
  IN  Filter(Split(text, <<>>))

\* C14: JWT::decode_b64 returns SchemaError for a text that has not three
\* pieces, whatever the pieces are; else the error of the header decoding of
\* the first piece when that fails, whatever the second piece is; else the
\* error of the claims decoding of the second piece (base64, UTF-8, then
\* JWT::from_plain_str) when that fails; else Ok.
C14_DecodeOrder ==
  op = "JWT::decode_b64" =>
    LET ClaimsStage(bytes) ==
          IF ~bytes.ok \/ ~ValidUtf8(bytes.bytes) THEN ret.tag = ParseError
          ELSE LET Same(r) == ret.tag = r.tag /\ ret.detail = r.detail
               IN  Same(JWT_from_plain_str(bytes.bytes, arg.btree))
        HeaderStage(components, h) ==
          IF h.tag # Ok
          THEN h.tag \in Errors /\ ret.tag = h.tag /\ ret.detail = h.detail
          ELSE ClaimsStage(Base64Decode(components[2]))
        CountStage(components) ==
          IF Len(components) # 3 THEN ret.tag = SchemaError
          ELSE HeaderStage(components, JWTHeader_decode_b64(components[1]))
    IN  /\ CountStage(Components(arg.text))
        /\ ret.tag \in Errors \cup { Ok }

\* Every entry of a set is under the name text of its claim.
KeyedByName(claims) ==
  \A k \in DOMAIN claims : as_str(claims[k].claim_name) = k

\* Names ClaimSet::get is asked for: the names of the sets at hand, and the
\* texts callers and claims texts give, canonical or not.
Probes == DOMAIN claim_set \cup DOMAIN before \cup DOMAIN ret.claims \cup Names \cup RawKeys

\* C15: every entry of the set held, and of a set ClaimSet::decode_str
\* returned, is under the name text of its claim, so no two claims of one name
\* text are stored; a successful insert adds exactly the entry of the claim's
\* name text, which was not there, and a failed one changes nothing, so the
\* entries count the successful inserts; a decoded set has as many entries as
\* the object has keys; and ClaimSet::get succeeds for exactly the name texts
\* inserted: after an insert, those it succeeded for before and the name just
\* inserted, and on a decoded set, the name texts of the object's keys.
C15_KeyNameConsistency ==
  /\ KeyedByName(claim_set)
  /\ KeyedByName(ret.claims)
  /\ \A j, k \in DOMAIN claim_set :
       as_str(claim_set[j].claim_name) = as_str(claim_set[k].claim_name) => j = k
  /\ op = "JWT::new" =>
       /\ Cardinality(DOMAIN claim_set) = 0
       /\ \A k \in Probes : ClaimSet_get(claim_set, k).tag = SchemaError
  /\ (op = "ClaimSet::insert" /\ ret.tag = Ok) =>
       /\ InsertedName \notin DOMAIN before
       /\ Cardinality(DOMAIN claim_set) = Cardinality(DOMAIN before) + 1
       /\ ClaimSet_get(claim_set, InsertedName) = [tag |-> Ok, claim |-> arg.claim]
       /\ \A k \in Probes \ { InsertedName } :
            ClaimSet_get(claim_set, k) = ClaimSet_get(before, k)
  /\ (op = "ClaimSet::insert" /\ ret.tag # Ok) =>
       /\ claim_set = before
       /\ \A k \in Probes : ClaimSet_get(claim_set, k) = ClaimSet_get(before, k)
  /\ (op = "ClaimSet::decode_str" /\ ret.tag = Ok) =>
       /\ Cardinality(DOMAIN ret.claims) = Cardinality(KeysOf(arg.text))
       /\ \A k \in Probes :
            ClaimSet_get(ret.claims, k).tag = Ok
              <=> k \in { NameOf(key) : key \in KeysOf(arg.text) }

\* A set holding a claim of a URI name refused another claim of that name, and
\* answers for the canonical text of the name only.
C15_Witness ==
  /\ op = "ClaimSet::insert"
  /\ ret.tag = SchemaError
  /\ InsertedName = T("a:b")
  /\ Cardinality(DOMAIN claim_set) = MaxClaims
  /\ claim_set[T("a:b")].claim_value # arg.claim.claim_value
  /\ ClaimSet_get(claim_set, T("a:b")).tag = Ok
  /\ ClaimSet_get(claim_set, T("A:b")).tag = SchemaError

=============================================================================
